---------------------------- MODULE Spec2Model ----------------------------
(***************************************************************************)
(* State-machine model of class Visualizer (src/src/visualizer.py).        *)
(*                                                                         *)
(* Python floats are modelled as fixed-point integers:                     *)
(*   lengths and velocities  in 1/LengthUnit pixels   (10^-6 px)           *)
(*   angles                  in 1/AngleUnit  radians  (10^-8 rad)          *)
(*   audio intensity         in 1/IntensityUnit       (10^-3)              *)
(*   glow / draw intensity   in 1/GlowUnit            (10^-6)              *)
(*   time                    in milliseconds                               *)
(*   progress                in 1/ProgressUnit        (eighths, so that    *)
(*                           the float arithmetic of the source is exact)  *)
(* Every product of the source is rounded to the nearest unit, as IEEE     *)
(* arithmetic rounds to the nearest float; int() truncates toward zero.    *)
(* math.cos, math.sin and math.atan2 are computed by CORDIC iterations on   *)
(* integers, math.sqrt is rounded to the nearest unit.  A float that the   *)
(* source compares with 0 after such a computation (line 95) is 0.0 or one *)
(* rounding error away from it when the model's value is 0: both outcomes  *)
(* of the comparison are kept.                                             *)
(***************************************************************************)
EXTENDS Integers, Sequences, FiniteSets

VARIABLES
    orbs,             \* self.orbs: the five orb records
    trails,           \* self.trails: one list of (x, y, intensity) per orb
    time,             \* self.time
    selection_pulse,  \* self.selection_pulse
    glow_intensity,   \* self.glow_intensity
    fade_alpha,       \* self.fade_alpha
    screenshot_mode,  \* self.screenshot_mode
    trail_surface,    \* self.trail_surface: its per-surface alpha and the lines on it
    call,             \* the last method call: name, arguments, returned value
    rendered          \* what the last call drew on the surface it was given

state == <<orbs, trails, time, selection_pulse, glow_intensity, fade_alpha,
           screenshot_mode, trail_surface>>
vars == <<orbs, trails, time, selection_pulse, glow_intensity, fade_alpha,
          screenshot_mode, trail_surface, call, rendered>>

---------------------------------------------------------------------------
(* Bounds of the model and the instance that is checked.                   *)

Width == 800
Height == 600
MaxUpdates == 2
MaxQuietUpdates == 640
MaxLoudUpdates == 3

---------------------------------------------------------------------------
(* Fixed-point units.                                                      *)

LengthUnit == 10^6
AngleUnit == 10^8
IntensityUnit == 10^3
GlowUnit == 10^6
ProgressUnit == 2^3
FrameMillis == 16

Abs(a) == IF a >= 0 THEN a ELSE -a
Max(a, b) == IF a >= b THEN a ELSE b
Min(a, b) == IF a <= b THEN a ELSE b

\* float division a / b rounded to the nearest unit (b > 0)
RDiv(a, b) == IF a >= 0 THEN (2 * a + b) \div (2 * b)
                         ELSE -((2 * (-a) + b) \div (2 * b))

\* floor(a / b + 1/2) for b > 0, for an a whose double would overflow
Round(a, b) == (a + (b \div 2)) \div b

\* int(a / b): truncation toward zero (b > 0)
TruncDiv(a, b) == IF a >= 0 THEN a \div b ELSE -((-a) \div b)

\* v * q for a float constant q written as <<numerator, denominator>>
MulRat(v, q) == RDiv(v * q[1], q[2])

---------------------------------------------------------------------------
(* math.pi, math.cos, math.sin, math.atan2, math.sqrt                      *)

\* math.pi and 2 * math.pi in angle units
Pi == 314159265
TwoPi == 2 * Pi + 1
HalfPi == RDiv(Pi, 2)

\* the trigonometry is computed in units of 10^-9 rad, a tenth of an angle
\* unit; math.pi is Pi * FineAngle + PiRest of them
FineAngle == 10
PiRest == 4

\* cosines and sines are fractions of One
One == 2^30
Limb == 2^15

\* atan(2^-i), i = 0 .. 29, in units of 10^-9 rad
AtanTable == << 785398163, 463647609, 244978663, 124354995, 62418810, 31239833,
                15623729, 7812341, 3906230, 1953123, 976562, 488281, 244141,
                122070, 61035, 30518, 15259, 7629, 3815, 1907, 954, 477, 238,
                119, 60, 30, 15, 7, 4, 2 >>
Iterations == Len(AtanTable)

\* One times 0.6072529350, the inverse of the gain of the CORDIC iterations
Gain == 652032874

\* a * b / One for a, b >= 0, from the 15-bit limbs of a and b
TimesLimbs(a1, a0, b1, b0) ==
    a1 * b1 + ((a1 * b0 + a0 * b1 + ((a0 * b0) \div Limb) + (Limb \div 2)) \div Limb)

\* r * c / One rounded to the nearest unit
Times(r, c) ==
    IF (r >= 0) = (c >= 0)
    THEN TimesLimbs(Abs(r) \div Limb, Abs(r) % Limb, Abs(c) \div Limb, Abs(c) % Limb)
    ELSE -TimesLimbs(Abs(r) \div Limb, Abs(r) % Limb, Abs(c) \div Limb, Abs(c) % Limb)

\* rotate the vector (x, y) by the angle z, |z| <= pi/2 (gain not removed);
\* iteration i turns by atan(1/s), s = 2^(i-1), and h = s / 2 rounds the quotients
RECURSIVE Rotate(_, _, _, _, _, _)
Rotate(x, y, z, i, s, h) ==
    IF i > Iterations THEN <<x, y>>
    ELSE IF z >= 0
         THEN Rotate(x - ((y + h) \div s), y + ((x + h) \div s), z - AtanTable[i],
                     i + 1, s + s, s)
         ELSE Rotate(x + ((y + h) \div s), y - ((x + h) \div s), z + AtanTable[i],
                     i + 1, s + s, s)

\* rotate the vector (x, y), x >= 0, onto the x axis: <<gain * length, angle>>
RECURSIVE Vector(_, _, _, _, _, _)
Vector(x, y, z, i, s, h) ==
    IF i > Iterations THEN <<x, z>>
    ELSE IF y >= 0
         THEN Vector(x + ((y + h) \div s), y - ((x + h) \div s), z + AtanTable[i],
                     i + 1, s + s, s)
         ELSE Vector(x - ((y + h) \div s), y + ((x + h) \div s), z - AtanTable[i],
                     i + 1, s + s, s)

\* an angle reduced to [-pi, pi), as cos and sin are periodic
WrapAngle(a) == ((a + Pi) % TwoPi) - Pi

Negated(p) == <<-p[1], -p[2]>>

\* <<math.cos(a), math.sin(a)>> as fractions of One, for a in [-pi, pi); the
\* angle is folded into [-pi/2, pi/2]; cos(0) = 1 and sin(0) = 0 are exact
CosSin(a) ==
    IF a = 0 THEN <<One, 0>>
    ELSE IF a > HalfPi
         THEN Negated(Rotate(Gain, 0, (a - Pi) * FineAngle - PiRest, 1, 1, 0))
    ELSE IF a < -HalfPi
         THEN Negated(Rotate(Gain, 0, (a + Pi) * FineAngle + PiRest, 1, 1, 0))
    ELSE Rotate(Gain, 0, a * FineAngle, 1, 1, 0)

\* <<u[1] * radius, u[2] * radius>> for a unit vector u
Stretch(radius, u) == <<Times(radius, u[1]), Times(radius, u[2])>>

\* <<math.cos(angle) * radius, math.sin(angle) * radius>>
Polar(radius, angle) == Stretch(radius, CosSin(WrapAngle(angle)))

\* x*x + y*y - r*r for x, y, r >= 0 below 5 * 10^8, from their 14-bit limbs;
\* a value beyond +-2^30 is cut to +-2^30
ExcessLimbs(x1, x0, y1, y0, r1, r0, e) ==
    IF e > 2^16 THEN 2^30
    ELSE IF e < -(2^16) THEN -(2^30)
    ELSE e * 2^14 + (x0 * x0 + y0 * y0 - r0 * r0)

Excess(x, y, r) ==
    ExcessLimbs(x \div 2^14, x % 2^14, y \div 2^14, y % 2^14, r \div 2^14, r % 2^14,
                ((x \div 2^14) * (x \div 2^14) + (y \div 2^14) * (y \div 2^14)
                    - (r \div 2^14) * (r \div 2^14)) * 2^14
                + 2 * ((x \div 2^14) * (x % 2^14) + (y \div 2^14) * (y % 2^14)
                    - (r \div 2^14) * (r % 2^14)))

\* math.sqrt(x*x + y*y) rounded to the nearest unit, from an estimate r of it:
\* the r with (r - 1/2)^2 < x*x + y*y <= (r + 1/2)^2
RECURSIVE Nearest(_, _, _, _)
Nearest(x, y, r, excess) ==
    IF excess > r THEN Nearest(x, y, r + 1, Excess(x, y, r + 1))
    ELSE IF excess <= -r THEN Nearest(x, y, r - 1, Excess(x, y, r - 1))
    ELSE r

Sqrt2(x, y, estimate) ==
    Nearest(Abs(x), Abs(y), estimate, Excess(Abs(x), Abs(y), estimate))

\* the vector (x, y), x >= 0, doubled until the iterations have their full
\* precision: <<x * g, y * g, g>>
RECURSIVE Grow(_, _, _)
Grow(x, y, g) ==
    IF x + Abs(y) >= 3 * 10^8 THEN <<x, y, g>> ELSE Grow(2 * x, 2 * y, 2 * g)

\* the length and the angle of the vector (x, y) from the rotation v of its
\* fold into the right half-plane, grown by g
Unfolded(v, x, y, g) ==
    <<Sqrt2(x, y, Round(Times(v[1], Gain), g)),
      IF x >= 0 THEN Round(v[2], FineAngle)
      ELSE IF y >= 0 THEN Round(v[2] + PiRest, FineAngle) + Pi
      ELSE Round(v[2] - PiRest, FineAngle) - Pi>>

Grown(t, x, y) == Unfolded(Vector(t[1], t[2], 0, 1, 1, 0), x, y, t[3])

\* <<math.sqrt(x*x + y*y), math.atan2(y, x)>>; on the axes both are exact
ToPolar(x, y) ==
    IF y = 0 THEN <<Abs(x), IF x >= 0 THEN 0 ELSE Pi>>
    ELSE IF x = 0 THEN <<Abs(y), IF y > 0 THEN HalfPi ELSE -HalfPi>>
    ELSE Grown(Grow(Abs(x), IF x < 0 THEN -y ELSE y, 1), x, y)

---------------------------------------------------------------------------
(* __init__                                                                *)

center == <<(Width \div 2) * LengthUnit, (Height \div 2) * LengthUnit>>
orbit_radius == (Min(Width, Height) \div 4) * LengthUnit
center_orb_radius == 85
orbital_orb_size == 6
base_speed == AngleUnit \div 1000
spring_constant == <<1, 100>>

\* a velocity that is never damped
NoDamping == <<1, 1>>

damping == <<98, 100>>
attraction_strength == <<1, 2>>
back_button == [x |-> 20, y |-> 20, w |-> 40, h |-> 40]

NumOrbs == 5
Orbs == 1 .. NumOrbs
Colors == << <<80, 180, 255>>, <<255, 80, 150>>, <<255, 200, 80>>,
             <<200, 255, 80>>, <<230, 130, 255>> >>
\* 0, 2*pi/5, 4*pi/5, 6*pi/5, 8*pi/5
InitialAngle(i) == (i - 1) * RDiv(TwoPi, 5)

InitialOrbs ==
    [i \in Orbs |->
        [color |-> Colors[i], angle |-> InitialAngle(i), deviation |-> 0,
         radial_velocity |-> 0, angular_velocity |-> base_speed,
         x_velocity |-> 0, y_velocity |-> 0]]

EmptyTrails == [i \in Orbs |-> <<>>]
ClearSurface == [alpha |-> 255, lines |-> <<>>]

\* a method call as the caller sees it; the fields a method does not take are blank
NoFrame == [present |-> FALSE, keys |-> {}, intensity |-> 0, has_recent_peak |-> FALSE]
NoPattern == [is_dict |-> FALSE, has_trails |-> FALSE, trails |-> <<>>]
Call(name) == [op |-> name, frame |-> NoFrame, pos |-> <<0, 0>>, progress |-> 0,
               pattern |-> NoPattern, category |-> "", elapsed |-> 0,
               result |-> "None"]

Init ==
    /\ orbs = InitialOrbs
    /\ trails = EmptyTrails
    /\ time = 0
    /\ selection_pulse = 0
    /\ glow_intensity = 0
    /\ fade_alpha = 255
    /\ screenshot_mode = FALSE
    /\ trail_surface = ClearSurface
    /\ call = Call("__init__")
    /\ rendered = <<>>

---------------------------------------------------------------------------
(* toggle_screenshot_mode                                                  *)

ToggleScreenshotMode ==
    /\ screenshot_mode' = ~screenshot_mode
    /\ call' = Call("toggle_screenshot_mode")
    /\ rendered' = <<>>
    /\ UNCHANGED <<orbs, trails, time, selection_pulse, glow_intensity,
                   fade_alpha, trail_surface>>

---------------------------------------------------------------------------
(* update                                                                  *)

\* the audio frames given to update(): None, and dicts with or without each key
Frame(keys, i) == [present |-> TRUE, keys |-> keys, intensity |-> i,
                   has_recent_peak |-> "has_recent_peak" \in keys]
Intensities == {IntensityUnit}
AudioFrames ==
    {NoFrame, Frame({}, 0), Frame({"has_recent_peak"}, 0)}
    \cup {Frame({"intensity"}, i) : i \in Intensities}

\* an early return taken for the empty dict only
FalsyWhenEmpty(frame) == frame.present /\ frame.keys = {}

\* `not audio_data`: None and the empty dict are both falsy
Falsy(frame) == ~frame.present \/ frame.keys = {}

\* audio_data.get('intensity', 0)
GetIntensity(frame) == IF "intensity" \in frame.keys THEN frame.intensity ELSE 0

\* the glow without the clamp to 1
UpdateGlowUnclamped(glow, intensity) ==
    RDiv((glow + intensity * ((GlowUnit \div IntensityUnit) \div 2)) * 95, 100)

\* glow boosted by half the intensity, clamped to 1, then decayed by 5%
UpdateGlow(glow, intensity) ==
    RDiv(Min(GlowUnit, glow + intensity * ((GlowUnit \div IntensityUnit) \div 2)) * 95, 100)

\* the orb after lines 89-93: its angle and deviation taken from the position
\* <<length, angle>>, its velocities damped
Placed(orb, xv, yv, polar) ==
    [orb EXCEPT !.angle = polar[2],
                !.deviation = polar[1] - orbit_radius,
                !.x_velocity = MulRat(xv, damping),
                !.y_velocity = MulRat(yv, damping)]

\* lines 96-99: the spring acts on the deviation
Sprung(orb, rv1) ==
    [orb EXCEPT !.deviation = orb.deviation + rv1,
                !.radial_velocity = MulRat(rv1, damping)]

Spring(orb) == Sprung(orb, orb.radial_velocity + (-MulRat(orb.deviation, spring_constant)))

\* the loop body without lines 87-88: the angle is only advanced, never
\* recomputed from the position
ReconcileUnwrapped(orb, intensity, xv, yv, px, py, placed) ==
    [orb    |-> [(IF Abs(placed.deviation) > 0 THEN Spring(placed) ELSE placed)
                    EXCEPT !.angle = orb.angle + orb.angular_velocity],
     sprung |-> [Spring(placed) EXCEPT !.angle = orb.angle + orb.angular_velocity],
     point  |-> <<center[1] + px, center[2] + py, intensity>>,
     raised |-> FALSE]

\* lines 95-101 of the loop body: the spring acts on a non-zero deviation and
\* the trail point (px, py), relative to the center, is recorded.  A deviation
\* of 0 units stands for a float that is 0.0 or one rounding error of
\* cos, sin and sqrt away from it, and the guard of line 95 compares that float
\* with 0: `orb` is the orb when the guard is false for it, `sprung` the orb
\* when the spring block runs
Reconcile(orb, intensity, xv, yv, px, py, placed) ==
    [orb    |-> IF Abs(placed.deviation) > 0 THEN Spring(placed) ELSE placed,
     sprung |-> Spring(placed),
     point  |-> <<center[1] + px, center[2] + py, intensity>>,
     raised |-> FALSE]

\* lines 87-88 for a position that no velocity moved: the length and the angle
\* of <<cos(angle1) * radius, sin(angle1) * radius>>
Unmoved(radius, angle1) ==
    IF radius > 0 THEN <<radius, WrapAngle(angle1)>>
    ELSE IF radius = 0 THEN <<0, 0>>
    ELSE <<-radius, WrapAngle(angle1 + Pi)>>

\* lines 84-93: the velocity moves the position cur, relative to the center
Move(orb, intensity, angle1, radius, xv, yv, cur) ==
    Reconcile(orb, intensity, xv, yv, cur[1] + xv, cur[2] + yv,
              Placed(orb, xv, yv,
                     IF xv = 0 /\ yv = 0 THEN Unmoved(radius, angle1)
                     ELSE ToPolar(cur[1] + xv, cur[2] + yv)))

\* self.attraction_strength * intensity
Attraction(intensity) ==
    MulRat(intensity * (LengthUnit \div IntensityUnit), attraction_strength)

\* lines 76-82: <<(dx / dist) * attraction, (dy / dist) * attraction>>; the
\* unit vector toward the center is -u for a positive radius, u for a negative
Pull(radius, attraction, u) ==
    Stretch(IF radius > 0 THEN -attraction ELSE attraction, u)

Pulled(orb, intensity, angle1, radius, cur, pull) ==
    Move(orb, intensity, angle1, radius,
         orb.x_velocity + pull[1], orb.y_velocity + pull[2], cur)

\* lines 75-82: the attraction toward the center; dx / dist raises when the
\* orb is at the center, where dist is 0
Attract(orb, intensity, angle1, radius, cur, u) ==
    IF radius = 0
    THEN [orb |-> [orb EXCEPT !.angle = angle1],
          sprung |-> [orb EXCEPT !.angle = angle1],
          point |-> <<0, 0, 0>>, raised |-> TRUE]
    ELSE Pulled(orb, intensity, angle1, radius, cur,
                Pull(radius, Attraction(intensity), u))

\* lines 71-73: the current position, relative to the center, from the unit
\* vector u of the angle
Locate(orb, intensity, angle1, radius, u) ==
    IF intensity > 0
    THEN Attract(orb, intensity, angle1, radius, Stretch(radius, u), u)
    ELSE Move(orb, intensity, angle1, radius, orb.x_velocity, orb.y_velocity,
              Stretch(radius, u))

\* one iteration of the loop over the orbs: the orb after it, the trail point
\* it appends, and whether dx / dist raised
UpdateOrb(orb, intensity) ==
    Locate(orb, intensity, orb.angle + orb.angular_velocity,
           orbit_radius + orb.deviation,
           CosSin(WrapAngle(orb.angle + orb.angular_velocity)))

\* the loop over the orbs stops at the first orb whose division raises
FirstRaised(step) ==
    IF \A i \in Orbs : ~step[i].raised THEN NumOrbs + 1
    ELSE CHOOSE i \in Orbs : step[i].raised /\ \A j \in 1 .. (i - 1) : ~step[j].raised

\* the orbs for which the guard of line 95 depends on the last bit of a float
Undecided(step, stop) == {i \in Orbs : i <= stop /\ step[i].sprung # step[i].orb}

\* the state after the loop, given each orb's iteration and where the loop stopped
FinishUpdate(frame, intensity, step, stop) ==
    /\ glow_intensity' = UpdateGlow(glow_intensity, intensity)
    /\ \E springs \in SUBSET Undecided(step, stop) :
          orbs' = [i \in Orbs |-> IF i > stop THEN orbs[i]
                                  ELSE IF i \in springs THEN step[i].sprung
                                  ELSE step[i].orb]
    /\ trails' = [i \in Orbs |-> IF i < stop THEN Append(trails[i], step[i].point)
                                 ELSE trails[i]]
    /\ time' = IF stop > NumOrbs THEN time + FrameMillis ELSE time
    /\ selection_pulse' = IF stop > NumOrbs
                          THEN (selection_pulse + AngleUnit \div 20) % TwoPi
                          ELSE selection_pulse
    /\ call' = [Call("update") EXCEPT !.frame = frame,
                   !.result = IF stop > NumOrbs THEN "None" ELSE "ZeroDivisionError"]
    /\ rendered' = <<>>
    /\ UNCHANGED <<fade_alpha, screenshot_mode, trail_surface>>

RunLoop(frame, intensity, step) ==
    FinishUpdate(frame, intensity, step, FirstRaised(step))

\* the body of update() past the early return
RunUpdate(frame) ==
    RunLoop(frame, GetIntensity(frame),
            [i \in Orbs |-> UpdateOrb(orbs[i], GetIntensity(frame))])

UpdateWith(frame) ==
    IF Falsy(frame)
    THEN /\ call' = [Call("update") EXCEPT !.frame = frame]
         /\ rendered' = <<>>
         /\ UNCHANGED state
    ELSE RunUpdate(frame)

\* the number of updates that ran since construction
Updates == time \div FrameMillis

Update ==
    \E frame \in AudioFrames :
        /\ Falsy(frame) \/ Updates < MaxUpdates
        /\ UpdateWith(frame)

\* frames of silence: intensity 0, given or defaulted
QuietFrames == {Frame({"intensity"}, 0), Frame({"has_recent_peak"}, 0)}

UpdateQuiet ==
    \E frame \in QuietFrames :
        /\ Updates < MaxQuietUpdates
        /\ UpdateWith(frame)

\* frames of every loudness
LoudFrames == {Frame({"intensity"}, i) : i \in {0, IntensityUnit \div 2, IntensityUnit}}

UpdateLoud ==
    \E frame \in LoudFrames :
        /\ Updates < MaxLoudUpdates
        /\ UpdateWith(frame)

---------------------------------------------------------------------------
(* handle_click                                                            *)

ClickPositions == {<<40, 40>>, <<500, 500>>, <<20, 20>>, <<59, 59>>, <<60, 60>>}

\* pygame.Rect.collidepoint: the right and bottom edges are outside
Collidepoint(rect, pos) ==
    /\ rect.x <= pos[1] /\ pos[1] < rect.x + rect.w
    /\ rect.y <= pos[2] /\ pos[2] < rect.y + rect.h

\* a click handler that does not look at the screenshot flag
HandleClickAnyMode(pos) ==
    IF Collidepoint(back_button, pos) THEN "selection" ELSE "None"

HandleClickResult(pos) ==
    IF Collidepoint(back_button, pos) /\ ~screenshot_mode
    THEN "selection" ELSE "None"

HandleClick ==
    \E pos \in ClickPositions :
        /\ call' = [Call("handle_click") EXCEPT !.pos = pos,
                                                !.result = HandleClickResult(pos)]
        /\ rendered' = <<>>
        /\ UNCHANGED state

---------------------------------------------------------------------------
(* reset                                                                   *)

\* a reset that leaves the horizontal velocity as it is
ResetOrbKeepingVelocity(orb) ==
    [orb EXCEPT !.deviation = 0, !.radial_velocity = 0, !.y_velocity = 0]

ResetOrb(orb) ==
    [orb EXCEPT !.deviation = 0, !.radial_velocity = 0,
                !.x_velocity = 0, !.y_velocity = 0]

Reset ==
    /\ orbs' = [i \in Orbs |-> ResetOrb(orbs[i])]
    /\ glow_intensity' = 0
    /\ fade_alpha' = 255
    /\ screenshot_mode' = FALSE
    /\ trails' = EmptyTrails
    /\ trail_surface' = [trail_surface EXCEPT !.lines = <<>>]
    /\ call' = Call("reset")
    /\ rendered' = <<>>
    /\ UNCHANGED <<time, selection_pulse>>

---------------------------------------------------------------------------
(* draw_back_button, draw_trails, draw_orb, draw_timer, get_voice_name     *)

BackButtonItem ==
    [kind |-> "back_button", pos |-> <<40, 40>>, radius |-> 20,
     points |-> << <<50, 40>>, <<35, 30>>, <<35, 50>> >>]

\* the line drawn from point j-1 to point j of orb i's trail
TrailLine(i, trail, j) ==
    LET intensity == trail[j][3]
        width == Max(4, TruncDiv(8 * intensity, IntensityUnit))
        alpha == TruncDiv(255 * (IntensityUnit + intensity), 2 * IntensityUnit)
    IN  [orb |-> i, start |-> <<trail[j-1][1], trail[j-1][2]>>,
         end |-> <<trail[j][1], trail[j][2]>>, width |-> width,
         color |-> Append(Colors[i], alpha)]

\* the lines draw_trails puts on the trail surface for the trails i .. Len(trls)
RECURSIVE TrailLines(_, _)
TrailLines(trls, i) ==
    IF i > Len(trls) THEN <<>>
    ELSE [j \in 1 .. (Len(trls[i]) - 1) |-> TrailLine(i, trls[i], j + 1)]
         \o TrailLines(trls, i + 1)

\* the blit of the trail surface onto the destination
TrailsItem(surface) ==
    [kind |-> "trails", lines |-> surface.lines, alpha |-> surface.alpha]

\* draw_orb: the glow rings, the core and the highlight
OrbItem(pos, color, size, intensity) ==
    LET max_radius == TruncDiv(12 * (2 * GlowUnit + intensity), 2 * GlowUnit)
        core_size  == TruncDiv(size * (10 * GlowUnit + 3 * intensity), 10 * GlowUnit)
    IN  [kind |-> "orb", pos |-> pos, color |-> color, intensity |-> intensity,
         max_radius |-> max_radius,
         ring_alpha |-> TruncDiv(100 * intensity, GlowUnit),
         core_size |-> core_size, highlight |-> Max(1, core_size - 1)]

Categories == {"study", "nap"}
ElapsedSeconds == {75}

get_voice_name(category) ==
    CASE category = "sleep" -> "Shimmer"
      [] category = "study" -> "Onyx"
      [] category = "vent"  -> "Nova"
      [] OTHER              -> "Nova"

\* str.upper() of the category names that are drawn
Upper(category) ==
    CASE category = "sleep" -> "SLEEP"
      [] category = "study" -> "STUDY"
      [] category = "vent"  -> "VENT"
      [] category = "nap"   -> "NAP"
      [] OTHER              -> category

\* draw_timer draws nothing in screenshot mode
TimerItems(category, elapsed) ==
    IF screenshot_mode THEN <<>>
    ELSE << [kind |-> "timer", radius |-> center_orb_radius + 5,
             time_text |-> <<elapsed \div 60, elapsed % 60>>,
             category_text |-> Upper(category),
             voice_text |-> get_voice_name(category)] >>

---------------------------------------------------------------------------
(* draw                                                                    *)

\* int() of the orb's position, in whole pixels
Pixel(p) ==
    <<TruncDiv(center[1] + p[1], LengthUnit), TruncDiv(center[2] + p[2], LengthUnit)>>

OrbPixel(orb) == Pixel(Polar(orbit_radius + orb.deviation, orb.angle))

\* draw, given the pixel each orb is drawn at
DrawAt(pixels) ==
    \E category \in Categories, elapsed \in ElapsedSeconds :
        /\ trail_surface' = [trail_surface EXCEPT !.lines = TrailLines(trails, 1)]
        /\ rendered' =
              << [kind |-> "fill"], TrailsItem(trail_surface') >>
              \o [i \in Orbs |-> OrbItem(pixels[i], orbs[i].color, 4,
                                         GlowUnit + glow_intensity)]
              \o TimerItems(category, elapsed)
              \o (IF screenshot_mode THEN <<>> ELSE <<BackButtonItem>>)
        /\ call' = [Call("draw") EXCEPT !.category = category, !.elapsed = elapsed]
        /\ UNCHANGED <<orbs, trails, time, selection_pulse, glow_intensity,
                       fade_alpha, screenshot_mode>>

Draw == DrawAt(<<OrbPixel(orbs[1]), OrbPixel(orbs[2]), OrbPixel(orbs[3]),
                 OrbPixel(orbs[4]), OrbPixel(orbs[5])>>)

\* draw_trails called on its own: the trail surface is repainted and blitted
DrawTrails ==
    /\ trail_surface' = [trail_surface EXCEPT !.lines = TrailLines(trails, 1)]
    /\ rendered' = << TrailsItem(trail_surface') >>
    /\ call' = Call("draw_trails")
    /\ UNCHANGED <<orbs, trails, time, selection_pulse, glow_intensity,
                   fade_alpha, screenshot_mode>>

---------------------------------------------------------------------------
(* draw_selection                                                          *)

SelectionCategories == <<"sleep", "study", "vent">>

\* int(30 * (1 + math.sin(self.selection_pulse) * 0.1))
GlowRadius == TruncDiv(30 * 10^7 + 3 * Polar(10^7, selection_pulse)[2], 10^7)

SelectionItems(i, glow_radius) ==
    LET pos == <<Width \div 2, (Height \div 4) * i>>
    IN  << [kind |-> "pulse", pos |-> pos, radius |-> glow_radius,
            color |-> orbs[i].color],
           OrbItem(pos, orbs[i].color, 6, GlowUnit),
           [kind |-> "label", text |-> Upper(SelectionCategories[i]),
            pos |-> <<pos[1], pos[2] + 40>>, color |-> orbs[i].color] >>

DrawSelectionWith(glow_radius) ==
    /\ rendered' = << [kind |-> "fill"] >> \o SelectionItems(1, glow_radius)
                      \o SelectionItems(2, glow_radius)
                      \o SelectionItems(3, glow_radius)
    /\ call' = Call("draw_selection")
    /\ UNCHANGED state

DrawSelection == DrawSelectionWith(GlowRadius)

---------------------------------------------------------------------------
(* draw_conclusion                                                         *)

Progresses == {0, ProgressUnit \div 2, ProgressUnit}

\* round(255 * (1 - progress)) in place of int(...)
FadeAlphaRounded(progress) == RDiv(255 * (ProgressUnit - progress), ProgressUnit)

\* int(255 * (1 - progress))
FadeAlpha(progress) == TruncDiv(255 * (ProgressUnit - progress), ProgressUnit)

\* 1 - progress, the intensity the orbs are drawn with
FadeIntensity(progress) == ((ProgressUnit - progress) * GlowUnit) \div ProgressUnit

\* the orbs that have a trail are drawn at its last point
RECURSIVE ConclusionOrbs(_, _)
ConclusionOrbs(progress, i) ==
    IF i > NumOrbs THEN <<>>
    ELSE (IF Len(trails[i]) > 0
          THEN << OrbItem(<<trails[i][Len(trails[i])][1], trails[i][Len(trails[i])][2]>>,
                          orbs[i].color, 4, FadeIntensity(progress)) >>
          ELSE <<>>)
         \o ConclusionOrbs(progress, i + 1)

DrawConclusion ==
    \E progress \in Progresses, category \in {"sleep"} :
        /\ fade_alpha' = FadeAlpha(progress)
        /\ trail_surface' = [trail_surface EXCEPT !.alpha = fade_alpha']
        /\ rendered' = << [kind |-> "fill"], TrailsItem(trail_surface') >>
                          \o ConclusionOrbs(progress, 1)
        /\ call' = [Call("draw_conclusion") EXCEPT !.progress = progress,
                                                   !.category = category]
        /\ UNCHANGED <<orbs, trails, time, selection_pulse, glow_intensity,
                       screenshot_mode>>

---------------------------------------------------------------------------
(* draw_stored_pattern                                                     *)

Px(x, y, intensity) == <<x * LengthUnit, y * LengthUnit, intensity>>

\* a stored trail history: one list of points per orb
StoredTrails ==
    << << Px(550, 300, 0), Px(549, 302, IntensityUnit), Px(547, 305, IntensityUnit \div 2) >>,
       << Px(446, 442, 0) >>, <<>>, <<>>, <<>> >>

\* None, a dict without 'trails', a dict with a stored history
Patterns ==
    { NoPattern,
      [is_dict |-> TRUE, has_trails |-> FALSE, trails |-> <<>>],
      [is_dict |-> TRUE, has_trails |-> TRUE, trails |-> StoredTrails] }

\* isinstance(pattern, dict) and 'trails' in pattern
CarriesTrails(pattern) == pattern.is_dict /\ pattern.has_trails

\* a replay that keeps the stored history in the trail buffer
DrawStoredPatternKeeping(pattern) ==
    IF CarriesTrails(pattern)
    THEN /\ trail_surface' = [trail_surface EXCEPT !.lines = TrailLines(pattern.trails, 1)]
         /\ rendered' = << TrailsItem(trail_surface') >>
         /\ trails' = [i \in Orbs |-> pattern.trails[i]]
         /\ call' = [Call("draw_stored_pattern") EXCEPT !.pattern = pattern]
         /\ UNCHANGED <<orbs, time, selection_pulse, glow_intensity, fade_alpha,
                        screenshot_mode>>
    ELSE /\ rendered' = <<>>
         /\ call' = [Call("draw_stored_pattern") EXCEPT !.pattern = pattern]
         /\ UNCHANGED state

DrawStoredPatternWith(pattern) ==
    IF CarriesTrails(pattern)
    THEN /\ trail_surface' = [trail_surface EXCEPT !.lines = TrailLines(pattern.trails, 1)]
         /\ rendered' = << TrailsItem(trail_surface') >>
         /\ trails' = EmptyTrails
         /\ call' = [Call("draw_stored_pattern") EXCEPT !.pattern = pattern]
         /\ UNCHANGED <<orbs, time, selection_pulse, glow_intensity, fade_alpha,
                        screenshot_mode>>
    ELSE /\ rendered' = <<>>
         /\ call' = [Call("draw_stored_pattern") EXCEPT !.pattern = pattern]
         /\ UNCHANGED state

DrawStoredPattern == \E pattern \in Patterns : DrawStoredPatternWith(pattern)

---------------------------------------------------------------------------
(* The session: any call in any order.                                     *)

Next ==
    \/ Update
    \/ ToggleScreenshotMode
    \/ HandleClick
    \/ Reset
    \/ Draw
    \/ DrawTrails
    \/ DrawSelection
    \/ DrawConclusion
    \/ DrawStoredPattern

Spec == Init /\ [][Next]_vars

---------------------------------------------------------------------------
(* A long silence after construction.                                      *)

SpecQuiet == Init /\ [][UpdateQuiet]_vars

---------------------------------------------------------------------------
(* A long silence after the orbs were pushed off their orbit: the orb      *)
(* records are plain dicts, and the deviation is set on them directly.     *)

Perturbations == {-20 * LengthUnit, 5 * LengthUnit}

InitPerturbed ==
    \E d \in Perturbations :
        /\ orbs = [i \in Orbs |-> [InitialOrbs[i] EXCEPT !.deviation = d]]
        /\ trails = EmptyTrails
        /\ time = 0
        /\ selection_pulse = 0
        /\ glow_intensity = 0
        /\ fade_alpha = 255
        /\ screenshot_mode = FALSE
        /\ trail_surface = ClearSurface
        /\ call = Call("__init__")
        /\ rendered = <<>>

SpecSpring == InitPerturbed /\ [][UpdateQuiet]_vars

---------------------------------------------------------------------------
(* Loud sessions: updates of every intensity, resets and drawing.          *)

NextLoud ==
    \/ UpdateLoud
    \/ Reset
    \/ Draw
    \/ DrawConclusion

SpecLoud == Init /\ [][NextLoud]_vars

---------------------------------------------------------------------------
(* Properties.                                                             *)

AppendsOnePoint == \A i \in Orbs : Len(trails'[i]) = Len(trails[i]) + 1

\* C1: every update() call with a present audio frame (any frame but None)
\* appends exactly one trail point to each of the five trails, so that the
\* five trails always have the same length.
C1_PresentFrameAppends ==
    [][ (call'.op = "update" /\ call'.frame.present)
            => (AppendsOnePoint /\ \A i, j \in Orbs : Len(trails'[i]) = Len(trails'[j])) ]_vars

\* C2 as stated: after reset() every field but the orbs' color and angle has
\* the value a freshly constructed instance has.
C2_ResetEqualsFresh ==
    call.op = "reset" =>
        /\ \A i \in Orbs : [orbs[i] EXCEPT !.angle = 0] = [InitialOrbs[i] EXCEPT !.angle = 0]
        /\ trails = EmptyTrails
        /\ time = 0
        /\ selection_pulse = 0
        /\ glow_intensity = 0
        /\ fade_alpha = 255
        /\ screenshot_mode = FALSE
        /\ trail_surface = ClearSurface

\* C2 amended: after reset() the orbs' deviation and velocities, the trails,
\* the glow, the fade alpha, the screenshot flag and the lines of the trail
\* layer have the values of a fresh instance (time, selection_pulse, the
\* angles and the trail layer's alpha keep the values they had).
C2_ResetRestores ==
    call.op = "reset" =>
        /\ \A i \in Orbs : [orbs[i] EXCEPT !.angle = 0] = [InitialOrbs[i] EXCEPT !.angle = 0]
        /\ trails = EmptyTrails
        /\ glow_intensity = 0
        /\ fade_alpha = 255
        /\ screenshot_mode = FALSE
        /\ trail_surface.lines = <<>>

\* a reset after updates, with the trail layer faded out by draw_conclusion(1.0)
C2_ResetAfterSession ==
    /\ call.op = "reset"
    /\ Updates = MaxUpdates
    /\ trail_surface.alpha = 0
    /\ \E i \in Orbs : orbs[i].angle # InitialAngle(i)

\* the back button's hit rectangle: 40 by 40 pixels with its corner at (20, 20)
InBackButton(pos) == 20 <= pos[1] /\ pos[1] < 60 /\ 20 <= pos[2] /\ pos[2] < 60

\* C3: handle_click(pos) returns 'selection' exactly when pos is inside the
\* back button's rectangle and screenshot mode is off, returns None otherwise,
\* and changes no state.
C3_HandleClick ==
    [][ call'.op = "handle_click"
            => /\ call'.result = (IF InBackButton(call'.pos) /\ ~screenshot_mode
                                  THEN "selection" ELSE "None")
               /\ UNCHANGED state ]_vars

\* a click inside the back button that is ignored because of screenshot mode
C3_ClickInScreenshotMode ==
    /\ call.op = "handle_click"
    /\ call.pos = <<40, 40>>
    /\ screenshot_mode
    /\ call.result = "None"

\* the angle an orb would have after the updates so far if it advanced by its
\* angular velocity per update and was never wrapped
UnwrappedAngle(i) == InitialAngle(i) + Updates * InitialOrbs[i].angular_velocity

\* C4 as stated: after N silent updates of a fresh instance every orb's angle
\* is its initial angle plus N times its angular velocity, not wrapped.
C4_AngleUnwrapped ==
    \A i \in Orbs : orbs[i].angle = UnwrappedAngle(i)

\* C4 amended: after N silent updates of a fresh instance every orb's angle
\* is its initial angle plus N times its angular velocity reduced modulo 2*pi
\* into [-pi, pi], the range of atan2.
C4_AngleWrapped ==
    \A i \in Orbs :
        /\ orbs[i].angle = IF Updates = 0 THEN InitialAngle(i)
                           ELSE WrapAngle(UnwrappedAngle(i))
        /\ Updates > 0 => Abs(orbs[i].angle) <= Pi

\* the third orb, started at 4*pi/5, has crossed pi and its angle is negative
C4_CrossedPi ==
    /\ Updates > 600
    /\ orbs[3].angle < 0
    /\ orbs[4].angle < 0

\* C5: glow_intensity stays within [0, 1].
C5_GlowInRange == 0 <= glow_intensity /\ glow_intensity <= GlowUnit

\* the glow right after the clamp to 1 acted: 0.95
C5_GlowClamped ==
    /\ call.op = "update"
    /\ glow_intensity = (GlowUnit \div 100) * 95

\* C6: update(None) changes no state and does not fail.
C6_AbsentFrameNoOp ==
    [][ (call'.op = "update" /\ ~call'.frame.present)
            => (UNCHANGED state /\ call'.result = "None") ]_vars

\* update(None) called after updates that moved the orbs
C6_AbsentFrameAfterUpdates ==
    /\ call.op = "update"
    /\ ~call.frame.present
    /\ Updates > 0
    /\ \E i \in Orbs : orbs[i].x_velocity # 0

\* C7: update() with a present frame that has no intensity field (the frame
\* with no field at all included) runs a normal update with intensity 0: no
\* attraction is added to the velocities, each orb's trail gets one point of
\* intensity 0, and time and selection_pulse advance.
C7_MissingIntensityIsZero ==
    [][ (call'.op = "update" /\ call'.frame.present /\ "intensity" \notin call'.frame.keys)
            => /\ AppendsOnePoint
               /\ \A i \in Orbs :
                    /\ trails'[i][Len(trails'[i])][3] = 0
                    /\ orbs'[i].x_velocity = MulRat(orbs[i].x_velocity, damping)
                    /\ orbs'[i].y_velocity = MulRat(orbs[i].y_velocity, damping)
               /\ time' = time + FrameMillis
               /\ selection_pulse' = (selection_pulse + AngleUnit \div 20) % TwoPi ]_vars

\* C8 as stated: draw_conclusion(progress) sets fade_alpha to 255 * (1 - progress).
C8_FadeAlphaExact ==
    call.op = "draw_conclusion"
        => fade_alpha * ProgressUnit = 255 * (ProgressUnit - call.progress)

\* the orbs drawn by the last call
DrawnOrbs == {k \in 1 .. Len(rendered) : rendered[k].kind = "orb"}

\* C8 amended: draw_conclusion(progress) sets fade_alpha to the integer part
\* of 255 * (1 - progress) (0 for progress 1, 255 for progress 0), draws the
\* orbs with intensity 1 - progress, and leaves the orbs, the trails, the
\* glow, time, selection_pulse and the screenshot flag unchanged; the alpha
\* of the trail layer is set to fade_alpha.
C8_DrawConclusion ==
    [][ call'.op = "draw_conclusion"
            => /\ fade_alpha' * ProgressUnit <= 255 * (ProgressUnit - call'.progress)
               /\ 255 * (ProgressUnit - call'.progress) < (fade_alpha' + 1) * ProgressUnit
               /\ call'.progress = ProgressUnit => fade_alpha' = 0
               /\ call'.progress = 0 => fade_alpha' = 255
               /\ \A k \in 1 .. Len(rendered') :
                    rendered'[k].kind = "orb" =>
                        rendered'[k].intensity * ProgressUnit
                            = (ProgressUnit - call'.progress) * GlowUnit
               /\ Cardinality({k \in 1 .. Len(rendered') : rendered'[k].kind = "orb"})
                    = Cardinality({i \in Orbs : Len(trails[i]) > 0})
               /\ trail_surface' = [trail_surface EXCEPT !.alpha = fade_alpha']
               /\ UNCHANGED <<orbs, trails, glow_intensity, time, selection_pulse,
                              screenshot_mode>> ]_vars

\* draw_conclusion(0.5) after updates: the five orbs are drawn half faded
C8_HalfFaded ==
    /\ call.op = "draw_conclusion"
    /\ call.progress * 2 = ProgressUnit
    /\ fade_alpha = 127
    /\ Cardinality(DrawnOrbs) = NumOrbs
    /\ glow_intensity > 0

\* |deviation| of the slowest-settling orb
Swing == CHOOSE m \in {Abs(orbs[i].deviation) : i \in Orbs} :
            \A i \in Orbs : Abs(orbs[i].deviation) <= m

\* the thresholds of C9: 0.1 px, reached after 520 updates; 0.01 px per frame;
\* 0.0001 px of rounding
SettledDeviation == LengthUnit \div 10
SettleUpdates == 13 * 40
SlowVelocity == LengthUnit \div 100
Rounding == LengthUnit \div 10^4

Slow == \A i \in Orbs : /\ Abs(orbs[i].radial_velocity) <= SlowVelocity
                        /\ Abs(orbs[i].x_velocity) <= SlowVelocity
                        /\ Abs(orbs[i].y_velocity) <= SlowVelocity

\* C9 as stated: under silent updates the deviation of a perturbed orb ends
\* below the threshold, and |deviation| does not grow once the velocities are
\* small.
C9_MonotoneConvergence ==
    /\ [](Updates >= SettleUpdates => Swing <= SettledDeviation)
    /\ [][ Slow => \A i \in Orbs :
                      Abs(orbs'[i].deviation) <= Abs(orbs[i].deviation) + Rounding ]_vars

\* C9 amended: under silent updates the deviation of a perturbed orb swings
\* around 0 with a shrinking amplitude: it never exceeds the perturbation and
\* ends below the threshold (it is not monotone: it overshoots 0).
C9_DampedOscillation ==
    /\ Updates >= SettleUpdates => Swing <= SettledDeviation
    /\ \E d \in Perturbations : \A e \in Perturbations :
          Abs(e) <= Abs(d) /\ Swing <= Abs(d)

\* the orbs after the settling time: still swinging, by less than 0.1 px
C9_Settled ==
    /\ Updates >= SettleUpdates
    /\ Swing <= SettledDeviation
    /\ Swing >= Rounding
    /\ \E i \in Orbs : orbs[i].radial_velocity # 0

\* C10: draw_stored_pattern(pattern) leaves five empty trails when the pattern
\* carries a trail history, whatever the trails held, and changes no state
\* when it carries none.
C10_DrawStoredPattern ==
    [][ call'.op = "draw_stored_pattern"
            => IF call'.pattern.is_dict /\ call'.pattern.has_trails
               THEN /\ DOMAIN trails' = Orbs
                    /\ \A i \in Orbs : trails'[i] = <<>>
               ELSE UNCHANGED state ]_vars

\* a stored history replayed over a session that had recorded trails of its own
C10_ReplayedOverSession ==
    /\ call.op = "draw_stored_pattern"
    /\ call.pattern.has_trails
    /\ Len(rendered) = 1
    /\ Len(rendered[1].lines) = 2
    /\ Updates = MaxUpdates
    /\ \A i \in Orbs : orbs[i].deviation # 0

===========================================================================
